---- MODULE Spec2Model ----
(***************************************************************************)
(* CueMap TypeScript SDK: the client context built by the constructor,    *)
(* the request lifecycle of CueMap.request and CueMap.ingestFile (timer,  *)
(* abort, status mapping, body decoding, error wrapping) and the typed    *)
(* operations built on them.                                              *)
(***************************************************************************)
EXTENDS Integers, Sequences, FiniteSets, TLC

VARIABLES given, client, calls, invoked

vars == <<given, client, calls, invoked>>

(* Number of invocations a behaviour may make on the client. *)
MaxInvocations == 2

-----------------------------------------------------------------------------
(* JavaScript values of the configuration object.                          *)

UndefinedStr == [defined |-> FALSE, v |-> ""]
UndefinedNum == [defined |-> FALSE, v |-> 0]
Str(s) == [defined |-> TRUE, v |-> s]
Num(n) == [defined |-> TRUE, v |-> n]

(* Truthiness of an optional string / number (undefined, '' and 0 are falsy). *)
TruthyStr(x) == x.defined /\ x.v # ""
TruthyNum(x) == x.defined /\ x.v # 0

DefaultUrl == "http://localhost:8080"
DefaultTimeout == 30000

UrlInputs == {UndefinedStr, Str(""), Str("https://engine.example")}
TimeoutInputs == {UndefinedNum, Num(0), Num(5)}
ApiKeyInputs == {UndefinedStr, Str(""), Str("secret-key")}
ProjectIdInputs == {UndefinedStr, Str(""), Str("proj-1")}

CueMapConfig ==
  [url : UrlInputs, apiKey : ApiKeyInputs, projectId : ProjectIdInputs,
   timeout : TimeoutInputs]

(* constructor(config): url and timeout fall back with ||, the other two   *)
(* fields are copied.                                                      *)
Constructor(config) ==
  [url |-> IF TruthyStr(config.url) THEN config.url.v ELSE DefaultUrl,
   apiKey |-> config.apiKey,
   projectId |-> config.projectId,
   timeout |-> IF TruthyNum(config.timeout) THEN config.timeout.v
               ELSE DefaultTimeout]

(* Variant: the headers are added when the fields are defined, empty or not. *)
GetHeadersWhenDefined(c) ==
  {<<"Content-Type", "application/json">>}
    \cup (IF c.apiKey.defined THEN {<<"X-API-Key", c.apiKey.v>>} ELSE {})
    \cup (IF c.projectId.defined THEN {<<"X-Project-ID", c.projectId.v>>}
          ELSE {})

(* getHeaders(): a set of <<name, value>> pairs. *)
GetHeaders(c) ==
  {<<"Content-Type", "application/json">>}
    \cup (IF TruthyStr(c.apiKey) THEN {<<"X-API-Key", c.apiKey.v>>} ELSE {})
    \cup (IF TruthyStr(c.projectId) THEN {<<"X-Project-ID", c.projectId.v>>}
          ELSE {})

(* delete headers[name] *)
DeleteHeader(headers, name) == {h \in headers : h[1] # name}

-----------------------------------------------------------------------------
(* Errors: name and message; a message is the sequence of its pieces.      *)

NoError == [name |-> "none", message |-> <<>>]

CueMapError(message) == [name |-> "CueMapError", message |-> message]

(* What fetch and response.json() reject with. *)
FetchFailed == [name |-> "TypeError", message |-> <<"fetch failed">>]
AbortError == [name |-> "AbortError", message |-> <<"This operation was aborted">>]
EncodeError ==
  [name |-> "TypeError", message |-> <<"Do not know how to serialize a BigInt">>]
JsonSyntaxError ==
  [name |-> "SyntaxError", message |-> <<"Unexpected end of JSON input">>]
BodyStreamError == [name |-> "TypeError", message |-> <<"terminated">>]

(* Error.prototype.toString(): name + ': ' + message *)
ErrorToString(e) == <<e.name, ": ">> \o e.message

DigitChar(d) ==
  CASE d = 0 -> "0" [] d = 1 -> "1" [] d = 2 -> "2" [] d = 3 -> "3"
    [] d = 4 -> "4" [] d = 5 -> "5" [] d = 6 -> "6" [] d = 7 -> "7"
    [] d = 8 -> "8" [] d = 9 -> "9"

(* Number.prototype.toString() of a non-negative integer. *)
RECURSIVE NumberToString(_)
NumberToString(n) ==
  IF n < 10 THEN <<DigitChar(n)>>
  ELSE NumberToString(n \div 10) \o <<DigitChar(n % 10)>>

-----------------------------------------------------------------------------
(* Responses of the engine: status, body text, and whether the body ever   *)
(* completes.                                                              *)

JsonBody == "{\"id\":\"m1\"}"
EmptyBody == ""
HtmlBody == "<html>Bad Gateway</html>"

(* A /recall answer and the JSON texts nested in it. *)
ResultItemText == "{\"memory_id\":\"m1\",\"content\":\"The server password is abc123\"}"
ResultsText == "[{\"memory_id\":\"m1\",\"content\":\"The server password is abc123\"}]"
RecallBody == "{\"results\":[{\"memory_id\":\"m1\",\"content\":\"The server password is abc123\"}]}"

(* A /recall/grounded answer and the JSON texts nested in it. *)
SelectedItemText == "{\"memory_id\":\"m2\",\"estimated_tokens\":120}"
SelectedText == "[{\"memory_id\":\"m2\",\"estimated_tokens\":120}]"
ExcludedTopText == "[]"
ProofText == "{\"selected\":[{\"memory_id\":\"m2\",\"estimated_tokens\":120}],\"excluded_top\":[]}"
VerifiedContextText == "[VERIFIED CONTEXT] (1) Fact"
GroundedBody == "{\"verified_context\":\"[VERIFIED CONTEXT] (1) Fact\",\"proof\":{\"selected\":[{\"memory_id\":\"m2\",\"estimated_tokens\":120}],\"excluded_top\":[]},\"engine_latency_ms\":4}"

Responses ==
  {[status |-> 200, body |-> JsonBody, stalls |-> FALSE],
   [status |-> 200, body |-> HtmlBody, stalls |-> FALSE],
   [status |-> 200, body |-> JsonBody, stalls |-> TRUE],
   [status |-> 200, body |-> RecallBody, stalls |-> FALSE],
   [status |-> 200, body |-> GroundedBody, stalls |-> FALSE],
   [status |-> 204, body |-> EmptyBody, stalls |-> FALSE],
   [status |-> 401, body |-> JsonBody, stalls |-> FALSE],
   [status |-> 401, body |-> EmptyBody, stalls |-> FALSE],
   [status |-> 404, body |-> HtmlBody, stalls |-> FALSE],
   [status |-> 500, body |-> JsonBody, stalls |-> FALSE]}

NoResponse == [status |-> 0, body |-> "", stalls |-> FALSE]

(* response.ok *)
ResponseOk(response) == response.status >= 200 /\ response.status <= 299

(* JavaScript values a call resolves to. *)
Undefined == [type |-> "undefined", v |-> ""]
True == [type |-> "boolean", v |-> "true"]
False == [type |-> "boolean", v |-> "false"]
JsonObject(text) == [type |-> "object", v |-> text]
JsString(s) == [type |-> "string", v |-> s]

JsonArray(text) == [type |-> "array", v |-> text]
JsNumber(n) == [type |-> "number", v |-> n]

(* JSON.parse as response.json() applies it to the body text: the texts    *)
(* that are JSON objects decode, the empty and the HTML text do not.       *)
JsonParse(text) ==
  IF text \in {JsonBody, RecallBody, GroundedBody}
  THEN [ok |-> TRUE, value |-> JsonObject(text)]
  ELSE [ok |-> FALSE, value |-> Undefined]

(* value[name] for a decoded value: the member of that name in the JSON    *)
(* text, undefined when there is none.                                     *)
GetProperty(value, name) ==
  CASE value = JsonObject(JsonBody) /\ name = "id" -> JsString("m1")
    [] value = JsonObject(RecallBody) /\ name = "results" ->
         JsonArray(ResultsText)
    [] value = JsonObject(GroundedBody) /\ name = "verified_context" ->
         JsString(VerifiedContextText)
    [] value = JsonObject(GroundedBody) /\ name = "proof" ->
         JsonObject(ProofText)
    [] value = JsonObject(GroundedBody) /\ name = "engine_latency_ms" ->
         JsNumber("4")
    [] value = JsonObject(ProofText) /\ name = "selected" ->
         JsonArray(SelectedText)
    [] value = JsonObject(ProofText) /\ name = "excluded_top" ->
         JsonArray(ExcludedTopText)
    [] value = JsonObject(ResultItemText) /\ name = "memory_id" ->
         JsString("m1")
    [] value = JsonObject(ResultItemText) /\ name = "content" ->
         JsString("The server password is abc123")
    [] value = JsonObject(SelectedItemText) /\ name = "memory_id" ->
         JsString("m2")
    [] value = JsonObject(SelectedItemText) /\ name = "estimated_tokens" ->
         JsNumber("120")
    [] OTHER -> Undefined

(* value[0]: the first element of an array; undefined for an empty array   *)
(* and for an object, which has no member named 0.                         *)
GetFirst(value) ==
  CASE value = JsonArray(ResultsText) -> JsonObject(ResultItemText)
    [] value = JsonArray(SelectedText) -> JsonObject(SelectedItemText)
    [] OTHER -> Undefined

(* response.id of a decoded object *)
GetId(value) ==
  IF value = JsonObject(JsonBody) THEN JsString("m1") ELSE Undefined

-----------------------------------------------------------------------------
(* Promises: pending, resolved with a value, or rejected with an error.    *)

Pending == [state |-> "pending", value |-> Undefined, error |-> NoError]
Resolved(value) == [state |-> "resolved", value |-> value, error |-> NoError]
Rejected(error) == [state |-> "rejected", value |-> Undefined, error |-> error]

NoBody == [kind |-> "none", encodable |-> TRUE, json |-> <<>>]
JsonPayload(obj, encodable) ==
  [kind |-> "json", encodable |-> encodable, json |-> obj]
MultipartPayload(file) ==
  [kind |-> "multipart", encodable |-> TRUE, json |-> <<"file", file>>]

NoRequest ==
  [method |-> "", url |-> <<>>, headers |-> {}, body |-> NoBody]

(* One invocation of a client operation.                                   *)
(*   pc       idle, fetching (await fetch), reading (await response.json), *)
(*            settled                                                      *)
(*   timer    none, armed, cleared, fired                                  *)
(*   aborted  controller.signal.aborted                                    *)
(*   sent     number of fetch calls issued                                 *)
(*   cause    what fetch / json / stringify threw, if anything             *)
(*   raised   the first CueMapError constructed for the call               *)
(*   inner    the promise of request() / of the body of ingestFile         *)
(*   outcome  the promise the caller of the operation holds                *)
(*   args     the arguments the operation was invoked with                 *)
IdleCall ==
  [op |-> "none", args |-> <<>>, pc |-> "idle", timer |-> "none",
   aborted |-> FALSE,
   sent |-> 0, request |-> NoRequest, response |-> NoResponse,
   bodyRead |-> FALSE, cause |-> NoError, raised |-> NoError,
   inner |-> Pending, outcome |-> Pending]

BestEffortOps ==
  {"reinforce", "deleteProject", "addAlias", "mergeAliases", "lexiconDelete"}

PropagatingOps ==
  {"add", "recall", "listProjects", "getAliases", "get", "stats",
   "recallGrounded", "lexiconWire", "lexiconInspect", "lexiconGraph",
   "lexiconSynonyms", "ingestUrl", "ingestContent", "ingestFile",
   "jobsStatus"}

(* clearTimeout(timeoutId): disarms a timer that has not fired. *)
ClearTimeout(timer) == IF timer = "armed" THEN "cleared" ELSE timer

(* `Request failed: ${x}` *)
RequestFailedMessage(pieces) == <<"Request failed: ">> \o pieces

(* Variant: the status is left out of the message. *)
RequestStatusErrorNoStatus(status) ==
  IF status = 401 THEN CueMapError(<<"Invalid API key">>)
  ELSE CueMapError(<<"Request failed">>)

(* request(): the throw for a response that is not ok. *)
RequestStatusError(status) ==
  IF status = 401 THEN CueMapError(<<"Invalid API key">>)
  ELSE CueMapError(RequestFailedMessage(NumberToString(status)))

(* ingestFile(): the throw for a response that is not ok. *)
IngestFileStatusError(status) ==
  CueMapError(RequestFailedMessage(NumberToString(status)))

(* Variant: the catch block wraps without the caught error's text. *)
RequestCatchThrowNoText(error) ==
  IF error.name = "CueMapError" THEN error
  ELSE CueMapError(<<"Request failed">>)

(* Variant: the catch block rethrows what it caught. *)
RequestCatchThrowRaw(error) == error

(* request(): what the catch block throws for a caught error. *)
RequestCatchThrow(error) ==
  IF error.name = "CueMapError" THEN error
  ELSE CueMapError(RequestFailedMessage(ErrorToString(error)))

(* ingestFile(): what the catch block throws for a caught error. *)
IngestFileCatchThrow(error) ==
  CueMapError(RequestFailedMessage(ErrorToString(error)))

(* Variant: the catch of a best-effort operation rethrows. *)
BestEffortResultRethrow(inner) ==
  IF inner.state = "resolved" THEN Resolved(True) ELSE inner

(* The try/catch of the best-effort operations around request(). *)
BestEffortResult(inner) ==
  IF inner.state = "resolved" THEN Resolved(True) ELSE Resolved(False)

(* Reading a member of undefined throws. *)
ReadOfUndefined ==
  [name |-> "TypeError",
   message |-> <<"Cannot read properties of undefined (reading 'selected')">>]

(* The object literal retrieveGrounded() returns. *)
Artifact(block, proof, selected) ==
  [type |-> "artifact",
   v |-> [verified_context_block |-> block, grounding_proof |-> proof,
          selected_memories |-> selected]]

(* Variant: selected_memories is taken from proof.excluded_top. *)
GroundedArtifactFromExcluded(response) ==
  IF GetProperty(response, "proof") = Undefined THEN Rejected(ReadOfUndefined)
  ELSE Resolved(Artifact(GetProperty(response, "verified_context"),
                         GetProperty(response, "proof"),
                         GetProperty(GetProperty(response, "proof"),
                                     "excluded_top")))

(* retrieveGrounded() after recallGrounded() resolved with `response`:     *)
(* response.verified_context, response.proof, response.proof.selected.     *)
GroundedArtifact(response) ==
  IF GetProperty(response, "proof") = Undefined THEN Rejected(ReadOfUndefined)
  ELSE Resolved(Artifact(GetProperty(response, "verified_context"),
                         GetProperty(response, "proof"),
                         GetProperty(GetProperty(response, "proof"),
                                     "selected")))

(* What the operation does with the promise of request() / ingestFile:     *)
(* the best-effort ones turn it into a boolean, add() returns response.id, *)
(* retrieveGrounded() projects it, every other one (recall() included)     *)
(* returns it as it is.                                                    *)
OperationResult(op, inner) ==
  IF op \in BestEffortOps THEN BestEffortResult(inner)
  ELSE IF op = "add" /\ inner.state = "resolved"
       THEN Resolved(GetId(inner.value))
  ELSE IF op = "retrieveGrounded" /\ inner.state = "resolved"
       THEN GroundedArtifact(inner.value)
  ELSE inner

(* The call settles: the operation's own continuation runs on `inner`. *)
Settle(k, inner) ==
  [k EXCEPT !.pc = "settled", !.inner = inner,
            !.outcome = OperationResult(k.op, inner)]

FirstRaised(k, error) == IF k.raised = NoError THEN error ELSE k.raised

(* Variant: the catch block of request() does not clear the timer. *)
RequestCatchNoClear(k, error) ==
  LET thrown == RequestCatchThrow(error)
  IN Settle([k EXCEPT !.raised = FirstRaised(k, thrown)], Rejected(thrown))

(* Variant: the catch block of request() sends the request once more. *)
RequestCatchRetry(k, error) ==
  LET thrown == RequestCatchThrow(error)
  IN IF k.sent = 1
     THEN [k EXCEPT !.pc = "fetching", !.sent = 2, !.timer = "armed",
                    !.aborted = FALSE, !.bodyRead = FALSE]
     ELSE Settle([k EXCEPT !.timer = ClearTimeout(@),
                           !.raised = FirstRaised(k, thrown)],
                 Rejected(thrown))

(* catch (error) { clearTimeout(timeoutId); ... throw ... } of request() *)
RequestCatch(k, error) ==
  LET thrown == RequestCatchThrow(error)
  IN Settle([k EXCEPT !.timer = ClearTimeout(@),
                      !.raised = FirstRaised(k, thrown)],
            Rejected(thrown))

(* catch (error) { clearTimeout(timeoutId); throw ... } of ingestFile() *)
IngestFileCatch(k, error) ==
  LET thrown == IngestFileCatchThrow(error)
  IN Settle([k EXCEPT !.timer = ClearTimeout(@),
                      !.raised = FirstRaised(k, thrown)],
            Rejected(thrown))

Catch(k, error) ==
  IF k.op = "ingestFile" THEN IngestFileCatch(k, error)
  ELSE RequestCatch(k, error)

(* The cause is what the transport threw; the CueMapErrors the code makes  *)
(* itself have no cause.                                                   *)
CatchCause(k, error) == Catch([k EXCEPT !.cause = error], error)

-----------------------------------------------------------------------------
(* Arguments.  An omitted (undefined) argument is [defined |-> FALSE].     *)

UndefinedArr == [defined |-> FALSE, v |-> <<>>]
UndefinedBool == [defined |-> FALSE, v |-> FALSE]
Arr(a) == [defined |-> TRUE, v |-> a]
Bool(b) == [defined |-> TRUE, v |-> b]

(* Variant: the value is hard-coded, the argument is ignored. *)
DefaultIgnoresArgument(x, d) == d

(* A default parameter value applies when the argument is undefined. *)
Default(x, d) == IF x.defined THEN x.v ELSE d

(* encodeURIComponent on the cues used here. *)
EncodeURIComponent(s) ==
  CASE s = "pay ment" -> "pay%20ment"
    [] s = "a/b" -> "a%2Fb"
    [] OTHER -> s

MemoryIds == {"m1"}
CueArgs == {"payment", "pay ment"}
OptionalCueArgs == {UndefinedStr, Str(""), Str("pay ment")}
CuesArgs == {<<>>, <<"meeting", "john">>}
(* FALSE: an argument holds a value JSON.stringify throws on. *)
Encodable == BOOLEAN

(* Variant: the payload without disable_temporal_chunking. *)
AddPayloadNoChunkingFlag(content, cues, metadata, disableTemporalChunking) ==
  [content |-> content, cues |-> cues,
   metadata |-> IF metadata.defined THEN metadata.v ELSE "{}"]

(* The object literal of add(). *)
AddPayload(content, cues, metadata, disableTemporalChunking) ==
  [content |-> content, cues |-> cues,
   metadata |-> IF metadata.defined THEN metadata.v ELSE "{}",
   disable_temporal_chunking |-> Default(disableTemporalChunking, FALSE)]

(* Variant: min_intersection is added only when minIntersection is truthy. *)
RecallOptionalKeysTruthyMin(queryText, cues, projects, minIntersection) ==
  (IF cues.defined THEN {"cues"} ELSE {})
    \cup (IF TruthyStr(queryText) THEN {"query_text"} ELSE {})
    \cup (IF TruthyNum(minIntersection) THEN {"min_intersection"} ELSE {})
    \cup (IF projects.defined THEN {"projects"} ELSE {})

(* The keys recall() adds to its payload after the six fixed ones:         *)
(* if (cues), if (queryText), if (minIntersection !== undefined),          *)
(* if (projects !== undefined).  An array, empty or not, is truthy.        *)
RecallOptionalKeys(queryText, cues, projects, minIntersection) ==
  (IF cues.defined THEN {"cues"} ELSE {})
    \cup (IF TruthyStr(queryText) THEN {"query_text"} ELSE {})
    \cup (IF minIntersection.defined THEN {"min_intersection"} ELSE {})
    \cup (IF projects.defined THEN {"projects"} ELSE {})

(* The payload recall() builds: the six fixed keys, then the optional ones. *)
RecallPayload(queryText, cues, projects, limit, autoReinforce, minIntersection, explain, disablePatternCompletion, disableSalienceBias, disableSystemsConsolidation) ==
  LET keys ==
        {"limit", "auto_reinforce", "explain", "disable_pattern_completion",
         "disable_salience_bias", "disable_systems_consolidation"}
          \cup RecallOptionalKeys(queryText, cues, projects, minIntersection)
  IN [key \in keys |->
        CASE key = "limit" -> Num(Default(limit, 10))
          [] key = "auto_reinforce" -> Bool(Default(autoReinforce, FALSE))
          [] key = "explain" -> Bool(Default(explain, FALSE))
          [] key = "disable_pattern_completion" ->
               Bool(Default(disablePatternCompletion, FALSE))
          [] key = "disable_salience_bias" ->
               Bool(Default(disableSalienceBias, FALSE))
          [] key = "disable_systems_consolidation" ->
               Bool(Default(disableSystemsConsolidation, FALSE))
          [] key = "cues" -> cues
          [] key = "query_text" -> queryText
          [] key = "min_intersection" -> minIntersection
          [] key = "projects" -> projects]

(* Variant: projects is added only when the list is not empty. *)
GroundedOptionalKeysNonEmpty(projects) ==
  IF projects.defined /\ projects.v # <<>> THEN {"projects"} ELSE {}

(* if (projects) of recallGrounded(): an array, empty or not, is truthy. *)
GroundedOptionalKeys(projects) ==
  IF projects.defined THEN {"projects"} ELSE {}

(* The payload recallGrounded() builds. *)
RecallGroundedPayload(query, tokenBudget, limit, projects, disablePatternCompletion, disableSalienceBias, disableSystemsConsolidation) ==
  LET keys ==
        {"query_text", "token_budget", "limit", "disable_pattern_completion",
         "disable_salience_bias", "disable_systems_consolidation"}
          \cup GroundedOptionalKeys(projects)
  IN [key \in keys |->
        CASE key = "query_text" -> Str(query)
          [] key = "token_budget" -> Num(Default(tokenBudget, 500))
          [] key = "limit" -> Num(Default(limit, 10))
          [] key = "disable_pattern_completion" ->
               Bool(Default(disablePatternCompletion, FALSE))
          [] key = "disable_salience_bias" ->
               Bool(Default(disableSalienceBias, FALSE))
          [] key = "disable_systems_consolidation" ->
               Bool(Default(disableSystemsConsolidation, FALSE))
          [] key = "projects" -> projects]

-----------------------------------------------------------------------------
(* request(method, path, body) up to its first await: the controller and   *)
(* the timer are created, then inside the try the body is stringified and  *)
(* fetch is called.  A body that cannot be stringified throws before fetch *)
(* is called and is caught at once.                                        *)
Request(cl, op, method, path, body) ==
  LET started == [IdleCall EXCEPT !.op = op, !.timer = "armed"]
  IN IF body.kind = "json" /\ ~body.encodable
     THEN CatchCause(started, EncodeError)
     ELSE [started EXCEPT
             !.pc = "fetching", !.sent = 1,
             !.request = [method |-> method, url |-> <<cl.url>> \o path,
                          headers |-> GetHeaders(cl), body |-> body]]

(* ingestFile(file) up to its await: the form data and the headers are     *)
(* built, Content-Type is deleted, then the timer is armed and fetch is    *)
(* called.                                                                 *)
IngestFileStart(cl, file) ==
  LET headers == DeleteHeader(GetHeaders(cl), "Content-Type")
  IN [IdleCall EXCEPT
        !.op = "ingestFile", !.timer = "armed", !.pc = "fetching", !.sent = 1,
        !.request = [method |-> "POST", url |-> <<cl.url, "/ingest/file">>,
                     headers |-> headers, body |-> MultipartPayload(file)]]

CanInvoke(c) == calls[c].pc = "idle" /\ invoked < MaxInvocations

(* Variant: deleteProject() also forgets the project the client is bound to. *)
ClientAfterForgetsProject(op, cl) ==
  IF op = "deleteProject" THEN [cl EXCEPT !.projectId = UndefinedStr] ELSE cl

(* The fields of the client after a step of operation op: no method        *)
(* assigns to this.url, this.apiKey, this.projectId or this.timeout, and   *)
(* getHeaders() hands out a fresh object each time.                        *)
ClientAfter(op, cl) == cl

Invoke(c, k) ==
  /\ calls' = [calls EXCEPT ![c] = k]
  /\ invoked' = invoked + 1
  /\ client' = ClientAfter(k.op, client)
  /\ UNCHANGED given

-----------------------------------------------------------------------------
(* The operations of the client.                                           *)

(* add() called with the arguments a. *)
AddCall(c, a) ==
  Invoke(c, [Request(client, "add", "POST", <<"/memories">>,
               JsonPayload(AddPayload(a.content, a.cues, a.metadata,
                                      a.disableTemporalChunking), a.encodable))
             EXCEPT !.args = a])

AddArgs ==
  [content : {"The server password is abc123"}, cues : CuesArgs,
   metadata : {UndefinedStr, Str("{priority}")},
   disableTemporalChunking : {UndefinedBool}, encodable : Encodable]

Add(c) ==
  /\ CanInvoke(c)
  /\ \E a \in AddArgs : AddCall(c, a)

(* Every combination of given and omitted arguments of add(). *)
AllAddArgs ==
  [content : {"", "The server password is abc123"}, cues : CuesArgs,
   metadata : {UndefinedStr, Str("{priority}")},
   disableTemporalChunking : {UndefinedBool, Bool(TRUE), Bool(FALSE)},
   encodable : Encodable]

AddAnyArguments(c) ==
  /\ CanInvoke(c)
  /\ \E a \in AllAddArgs : AddCall(c, a)

(* recall() called with the arguments a. *)
RecallCall(c, a) ==
  Invoke(c, [Request(client, "recall", "POST", <<"/recall">>,
               JsonPayload(RecallPayload(a.queryText, a.cues, a.projects,
                             a.limit, a.autoReinforce, a.minIntersection,
                             a.explain, a.disablePatternCompletion,
                             a.disableSalienceBias,
                             a.disableSystemsConsolidation), TRUE))
             EXCEPT !.args = a])

RecallArgs ==
  [queryText : {UndefinedStr, Str("server credentials")},
   cues : {UndefinedArr, Arr(<<"meeting", "john">>)},
   projects : {UndefinedArr}, limit : {Num(10)},
   autoReinforce : {UndefinedBool}, minIntersection : {UndefinedNum},
   explain : {UndefinedBool}, disablePatternCompletion : {UndefinedBool},
   disableSalienceBias : {UndefinedBool},
   disableSystemsConsolidation : {UndefinedBool}]

Recall(c) ==
  /\ CanInvoke(c)
  /\ \E a \in RecallArgs : RecallCall(c, a)

(* Every combination of given, omitted and falsy arguments of recall(). *)
AllRecallArgs ==
  [queryText : {UndefinedStr, Str(""), Str("server credentials")},
   cues : {UndefinedArr, Arr(<<>>), Arr(<<"meeting", "john">>)},
   projects : {UndefinedArr, Arr(<<>>), Arr(<<"sales", "support">>)},
   limit : {UndefinedNum, Num(0), Num(5)},
   autoReinforce : {UndefinedBool, Bool(TRUE)},
   minIntersection : {UndefinedNum, Num(0), Num(2)},
   explain : {UndefinedBool, Bool(TRUE), Bool(FALSE)},
   disablePatternCompletion : {UndefinedBool, Bool(TRUE)},
   disableSalienceBias : {UndefinedBool, Bool(TRUE)},
   disableSystemsConsolidation : {UndefinedBool, Bool(TRUE)}]

RecallAnyArguments(c) ==
  /\ CanInvoke(c)
  /\ \E a \in AllRecallArgs : RecallCall(c, a)

ListProjects(c) ==
  /\ CanInvoke(c)
  /\ Invoke(c, Request(client, "listProjects", "GET", <<"/projects">>, NoBody))

DeleteProject(c) ==
  /\ CanInvoke(c)
  /\ \E projectId \in {"proj-1"} :
       Invoke(c, Request(client, "deleteProject", "DELETE",
                         <<"/projects/", projectId>>, NoBody))

AddAlias(c) ==
  /\ CanInvoke(c)
  /\ \E weight \in {UndefinedNum, Num(0)}, encodable \in Encodable :
       Invoke(c, Request(client, "addAlias", "POST", <<"/aliases">>,
                JsonPayload([from |-> "pay", to |-> "payment",
                             weight |-> Default(weight, 1)], encodable)))

GetAliases(c) ==
  /\ CanInvoke(c)
  /\ \E cue \in OptionalCueArgs :
       Invoke(c, Request(client, "getAliases", "GET",
                IF TruthyStr(cue)
                THEN <<"/aliases?cue=", EncodeURIComponent(cue.v)>>
                ELSE <<"/aliases">>,
                NoBody))

MergeAliases(c) ==
  /\ CanInvoke(c)
  /\ \E cues \in CuesArgs, encodable \in Encodable :
       Invoke(c, Request(client, "mergeAliases", "POST", <<"/aliases/merge">>,
                JsonPayload([cues |-> cues, to |-> "status:error"], encodable)))

Reinforce(c) ==
  /\ CanInvoke(c)
  /\ \E memoryId \in MemoryIds, cues \in CuesArgs, encodable \in Encodable :
       Invoke(c, Request(client, "reinforce", "PATCH",
                <<"/memories/", memoryId, "/reinforce">>,
                JsonPayload([cues |-> cues], encodable)))

Get(c) ==
  /\ CanInvoke(c)
  /\ \E memoryId \in MemoryIds :
       Invoke(c, Request(client, "get", "GET", <<"/memories/", memoryId>>,
                         NoBody))

Stats(c) ==
  /\ CanInvoke(c)
  /\ Invoke(c, Request(client, "stats", "GET", <<"/stats">>, NoBody))

(* recallGrounded() called on the client cl with the arguments a, on       *)
(* behalf of op.                                                           *)
RecallGroundedOn(cl, op, a) ==
  [Request(cl, op, "POST", <<"/recall/grounded">>,
     JsonPayload(RecallGroundedPayload(a.query, a.tokenBudget, a.limit,
                   a.projects, a.disablePatternCompletion,
                   a.disableSalienceBias, a.disableSystemsConsolidation),
                 TRUE))
   EXCEPT !.args = a]

(* recallGrounded() called with the arguments a, on behalf of op. *)
RecallGroundedRequest(op, a) == RecallGroundedOn(client, op, a)

RecallGroundedArgs ==
  [query : {"Why is payment failing?"},
   tokenBudget : {UndefinedNum, Num(300)}, limit : {UndefinedNum},
   projects : {UndefinedArr, Arr(<<"sales">>)},
   disablePatternCompletion : {UndefinedBool},
   disableSalienceBias : {UndefinedBool},
   disableSystemsConsolidation : {UndefinedBool}]

RecallGrounded(c) ==
  /\ CanInvoke(c)
  /\ \E a \in RecallGroundedArgs :
       Invoke(c, RecallGroundedRequest("recallGrounded", a))

(* Every combination of given and omitted arguments of recallGrounded(). *)
AllRecallGroundedArgs ==
  [query : {"", "Why is payment failing?"},
   tokenBudget : {UndefinedNum, Num(0), Num(300)},
   limit : {UndefinedNum, Num(0), Num(5)},
   projects : {UndefinedArr, Arr(<<>>), Arr(<<"sales">>)},
   disablePatternCompletion : {UndefinedBool, Bool(TRUE)},
   disableSalienceBias : {UndefinedBool, Bool(TRUE), Bool(FALSE)},
   disableSystemsConsolidation : {UndefinedBool, Bool(TRUE)}]

RecallGroundedAnyArguments(c) ==
  /\ CanInvoke(c)
  /\ \E a \in AllRecallGroundedArgs :
       Invoke(c, RecallGroundedRequest("recallGrounded", a))

(* The arguments retrieveGrounded() passes on to recallGrounded(): its own *)
(* five after its own defaults (500, 10, false) have applied; the last two *)
(* parameters of recallGrounded() are left out.                            *)
(* Variant: tokenBudget and limit are passed in each other's place. *)
ForwardedArgsSwapped(r) ==
  [query |-> r.queryText,
   tokenBudget |-> Num(Default(r.limit, 10)),
   limit |-> Num(Default(r.tokenBudget, 500)),
   projects |-> r.projects,
   disablePatternCompletion |-> Bool(Default(r.disablePatternCompletion, FALSE)),
   disableSalienceBias |-> UndefinedBool,
   disableSystemsConsolidation |-> UndefinedBool]

ForwardedArgs(r) ==
  [query |-> r.queryText,
   tokenBudget |-> Num(Default(r.tokenBudget, 500)),
   limit |-> Num(Default(r.limit, 10)),
   projects |-> r.projects,
   disablePatternCompletion |-> Bool(Default(r.disablePatternCompletion, FALSE)),
   disableSalienceBias |-> UndefinedBool,
   disableSystemsConsolidation |-> UndefinedBool]

(* What a CueMapGroundingRetriever is constructed with: the CueMap         *)
(* instance, a configuration, or nothing.                                  *)
GivenClient == [kind |-> "client", config |-> <<>>]
GivenConfig(config) == [kind |-> "config", config |-> config]
GivenNothing == [kind |-> "undefined", config |-> <<>>]

(* `config: CueMapConfig = {}`: the configuration with every field absent. *)
EmptyConfig ==
  [url |-> UndefinedStr, apiKey |-> UndefinedStr, projectId |-> UndefinedStr,
   timeout |-> UndefinedNum]

RetrieverConfig ==
  [url |-> Str("https://grounding.example"), apiKey |-> Str("retriever-key"),
   projectId |-> UndefinedStr, timeout |-> UndefinedNum]

(* constructor(configOrClient) of CueMapGroundingRetriever: the instance   *)
(* itself when it is a CueMap, else new CueMap(configOrClient), where an   *)
(* undefined argument takes the constructor's default {}.                  *)
RetrieverClient(configOrClient, cl) ==
  IF configOrClient.kind = "client" THEN cl
  ELSE IF configOrClient.kind = "config"
       THEN Constructor(configOrClient.config)
  ELSE Constructor(EmptyConfig)

(* retrieveGrounded() called with the arguments r on a retriever that was  *)
(* constructed with r.configOrClient: one recallGrounded() call on the     *)
(* retriever's client, then the projection.                                *)
RetrieveGroundedCall(c, r) ==
  Invoke(c, [RecallGroundedOn(RetrieverClient(r.configOrClient, client),
                              "retrieveGrounded", ForwardedArgs(r))
             EXCEPT !.args = r])

RetrieveGroundedArgs ==
  [queryText : {"Why did the database fail?"},
   tokenBudget : {UndefinedNum, Num(300)}, limit : {UndefinedNum},
   projects : {UndefinedArr}, disablePatternCompletion : {UndefinedBool},
   configOrClient : {GivenClient}]

(* CueMapGroundingRetriever.retrieveGrounded() on a retriever that holds   *)
(* this client.                                                            *)
RetrieveGrounded(c) ==
  /\ CanInvoke(c)
  /\ \E r \in RetrieveGroundedArgs : RetrieveGroundedCall(c, r)

(* Every combination of given and omitted arguments of retrieveGrounded(), *)
(* on a retriever constructed in each of the three ways.                   *)
AllRetrieveGroundedArgs ==
  [queryText : {"", "Why did the database fail?"},
   tokenBudget : {UndefinedNum, Num(0), Num(300)},
   limit : {UndefinedNum, Num(0), Num(5)},
   projects : {UndefinedArr, Arr(<<>>), Arr(<<"sales">>)},
   disablePatternCompletion : {UndefinedBool, Bool(TRUE), Bool(FALSE)},
   configOrClient : {GivenClient, GivenConfig(RetrieverConfig), GivenNothing}]

RetrieveGroundedAnyArguments(c) ==
  /\ CanInvoke(c)
  /\ \E r \in AllRetrieveGroundedArgs : RetrieveGroundedCall(c, r)

LexiconWire(c) ==
  /\ CanInvoke(c)
  /\ \E encodable \in Encodable :
       Invoke(c, Request(client, "lexiconWire", "POST", <<"/lexicon/wire">>,
                JsonPayload([token |-> "pay", canonical |-> "payment"],
                            encodable)))

LexiconInspect(c) ==
  /\ CanInvoke(c)
  /\ \E cue \in CueArgs :
       Invoke(c, Request(client, "lexiconInspect", "GET",
                <<"/lexicon/inspect/", EncodeURIComponent(cue)>>, NoBody))

LexiconGraph(c) ==
  /\ CanInvoke(c)
  /\ Invoke(c, Request(client, "lexiconGraph", "GET", <<"/lexicon/graph">>,
                       NoBody))

LexiconSynonyms(c) ==
  /\ CanInvoke(c)
  /\ \E cue \in CueArgs :
       Invoke(c, Request(client, "lexiconSynonyms", "GET",
                <<"/lexicon/synonyms/", EncodeURIComponent(cue)>>, NoBody))

LexiconDelete(c) ==
  /\ CanInvoke(c)
  /\ \E memoryId \in MemoryIds :
       Invoke(c, Request(client, "lexiconDelete", "DELETE",
                <<"/lexicon/entry/", memoryId>>, NoBody))

IngestUrl(c) ==
  /\ CanInvoke(c)
  /\ \E url \in {"https://example.com/doc"} :
       Invoke(c, Request(client, "ingestUrl", "POST", <<"/ingest/url">>,
                         JsonPayload([url |-> url], TRUE)))

IngestContent(c) ==
  /\ CanInvoke(c)
  /\ \E filename \in {UndefinedStr, Str("notes.md")} :
       Invoke(c, Request(client, "ingestContent", "POST", <<"/ingest/content">>,
                JsonPayload([content |-> "some text",
                             filename |-> Default(filename, "content.txt")],
                            TRUE)))

IngestFile(c) ==
  /\ CanInvoke(c)
  /\ \E file \in {"blob:report.pdf"} :
       Invoke(c, IngestFileStart(client, file))

JobsStatus(c) ==
  /\ CanInvoke(c)
  /\ Invoke(c, Request(client, "jobsStatus", "GET", <<"/jobs/status">>, NoBody))

-----------------------------------------------------------------------------
(* The continuations of a call in flight.                                  *)

StatusError(op, status) ==
  IF op = "ingestFile" THEN IngestFileStatusError(status)
  ELSE RequestStatusError(status)

(* After `await fetch(...)` resolved: clearTimeout, then the ok test; a    *)
(* status error is thrown inside the try, so the catch block runs on it.   *)
AfterFetch(k, response) ==
  LET cleared == [k EXCEPT !.response = response, !.timer = ClearTimeout(@)]
  IN IF ~ResponseOk(response)
     THEN LET error == StatusError(k.op, response.status)
          IN Catch([cleared EXCEPT !.raised = error], error)
     ELSE [cleared EXCEPT !.pc = "reading", !.bodyRead = TRUE]

(* After `await response.json()`. *)
AfterJson(k) ==
  LET parsed == JsonParse(k.response.body)
  IN IF parsed.ok THEN Settle(k, Resolved(parsed.value))
     ELSE CatchCause(k, JsonSyntaxError)

Step(c, k) ==
  /\ calls' = [calls EXCEPT ![c] = k]
  /\ client' = ClientAfter(calls[c].op, client)
  /\ UNCHANGED <<given, invoked>>

(* The engine answers: fetch resolves with the response head. *)
FetchResolves(c) ==
  /\ calls[c].pc = "fetching"
  /\ \E response \in Responses : Step(c, AfterFetch(calls[c], response))

(* The transport fails (DNS, refused connection): fetch rejects. *)
FetchRejects(c) ==
  /\ calls[c].pc = "fetching"
  /\ Step(c, CatchCause(calls[c], FetchFailed))

(* The body has arrived: response.json() resolves or rejects. *)
BodyArrives(c) ==
  /\ calls[c].pc = "reading"
  /\ ~calls[c].response.stalls
  /\ Step(c, AfterJson(calls[c]))

(* The connection breaks while the body is read: response.json() rejects. *)
BodyFails(c) ==
  /\ calls[c].pc = "reading"
  /\ Step(c, CatchCause(calls[c], BodyStreamError))

(* Variant: one controller, held by the client, serves every call. *)
ControllerOfClient(c) == 1

(* `const controller = new AbortController()` at the start of request()    *)
(* and of ingestFile(): every call makes its own controller, named here    *)
(* after the call.                                                         *)
ControllerOf(c) == c

(* The signal of a call is aborted: an awaited fetch or body read rejects  *)
(* with the abort error.                                                   *)
Abort(k) ==
  LET signalled == [k EXCEPT !.aborted = TRUE]
  IN IF k.pc \in {"fetching", "reading"}
     THEN CatchCause(signalled, AbortError)
     ELSE signalled

(* The timer callback of call c runs: controller.abort() on the controller *)
(* of c, which signals every call in flight that fetches with its signal.  *)
TimerFires(c) ==
  /\ calls[c].timer = "armed"
  /\ calls' =
       [d \in DOMAIN calls |->
          IF d = c THEN Abort([calls[c] EXCEPT !.timer = "fired"])
          ELSE IF ControllerOf(d) = ControllerOf(c)
                    /\ calls[d].pc \in {"fetching", "reading"}
               THEN Abort(calls[d])
               ELSE calls[d]]
  /\ client' = ClientAfter(calls[c].op, client)
  /\ UNCHANGED <<given, invoked>>

(* The caller has taken the outcome; the slot is free for a new call. *)
Return(c) ==
  /\ calls[c].pc = "settled"
  /\ Step(c, IdleCall)

-----------------------------------------------------------------------------
Init ==
  /\ given \in CueMapConfig
  /\ client = Constructor(given)
  /\ calls = <<IdleCall>>
  /\ invoked = 0

Next ==
  \E c \in DOMAIN calls :
    \/ Add(c)
    \/ Recall(c)
    \/ ListProjects(c)
    \/ DeleteProject(c)
    \/ AddAlias(c)
    \/ GetAliases(c)
    \/ MergeAliases(c)
    \/ Reinforce(c)
    \/ Get(c)
    \/ Stats(c)
    \/ RecallGrounded(c)
    \/ LexiconWire(c)
    \/ LexiconInspect(c)
    \/ LexiconGraph(c)
    \/ LexiconSynonyms(c)
    \/ LexiconDelete(c)
    \/ IngestUrl(c)
    \/ IngestContent(c)
    \/ IngestFile(c)
    \/ JobsStatus(c)
    \/ RetrieveGrounded(c)
    \/ FetchResolves(c)
    \/ FetchRejects(c)
    \/ BodyArrives(c)
    \/ BodyFails(c)
    \/ TimerFires(c)
    \/ Return(c)

Spec == Init /\ [][Next]_vars

(* The operations that build a payload from optional arguments, over every *)
(* combination of their arguments, on a client built from an empty         *)
(* configuration.                                                          *)
(* Two calls in flight on one client. *)
InitConcurrent ==
  /\ given = [url |-> Str("https://engine.example"),
              apiKey |-> Str("secret-key"), projectId |-> UndefinedStr,
              timeout |-> Num(5)]
  /\ client = Constructor(given)
  /\ calls = <<IdleCall, IdleCall>>
  /\ invoked = 0

SpecConcurrent == InitConcurrent /\ [][Next]_vars

(* One client with a timeout of 5 ms.  The timer of a running call fires   *)
(* once its delay has passed, and a body that is not stalled arrives; the  *)
(* engine is free never to answer and never to finish a body.              *)
InitFair ==
  /\ given = [url |-> UndefinedStr, apiKey |-> UndefinedStr,
              projectId |-> UndefinedStr, timeout |-> Num(5)]
  /\ client = Constructor(given)
  /\ calls = <<IdleCall>>
  /\ invoked = 0

SpecFair ==
  /\ InitFair
  /\ [][Next]_vars
  /\ WF_vars(\E c \in {1} : TimerFires(c))
  /\ WF_vars(\E c \in {1} : BodyArrives(c))

(* A retriever on a client that was constructed with nothing, or with a    *)
(* url, a key, a project and a timeout.                                    *)
InitRetriever ==
  /\ given \in {EmptyConfig,
                [url |-> Str("https://engine.example"),
                 apiKey |-> Str("secret-key"), projectId |-> Str("proj-1"),
                 timeout |-> Num(5)]}
  /\ client = Constructor(given)
  /\ calls = <<IdleCall>>
  /\ invoked = 0

NextRetriever ==
  \E c \in DOMAIN calls :
    \/ RetrieveGroundedAnyArguments(c)
    \/ FetchResolves(c)
    \/ FetchRejects(c)
    \/ BodyArrives(c)
    \/ BodyFails(c)
    \/ TimerFires(c)
    \/ Return(c)

SpecRetriever == InitRetriever /\ [][NextRetriever]_vars

InitArguments ==
  /\ given = [url |-> UndefinedStr, apiKey |-> UndefinedStr,
              projectId |-> UndefinedStr, timeout |-> UndefinedNum]
  /\ client = Constructor(given)
  /\ calls = <<IdleCall>>
  /\ invoked = 0

NextArguments ==
  \E c \in DOMAIN calls :
    \/ AddAnyArguments(c)
    \/ RecallAnyArguments(c)
    \/ RecallGroundedAnyArguments(c)
    \/ RetrieveGrounded(c)
    \/ FetchResolves(c)
    \/ FetchRejects(c)
    \/ BodyArrives(c)
    \/ BodyFails(c)
    \/ TimerFires(c)
    \/ Return(c)

SpecArguments == InitArguments /\ [][NextArguments]_vars

-----------------------------------------------------------------------------
(* Vocabulary of the properties.                                           *)

Settled(k) == k.pc = "settled"

(* The errors the three throw sites can make, written out as text.         *)
InvalidApiKeyError ==
  [name |-> "CueMapError", message |-> <<"Invalid API key">>]

StatusText(status) ==
  CASE status = 401 -> <<"4", "0", "1">>
    [] status = 404 -> <<"4", "0", "4">>
    [] status = 500 -> <<"5", "0", "0">>

FailedStatuses == {r.status : r \in {x \in Responses : ~ResponseOk(x)}}

(* `Request failed: <status>` for the statuses the engine answers with. *)
StatusFailureErrors ==
  {[name |-> "CueMapError",
    message |-> <<"Request failed: ">> \o StatusText(status)] :
     status \in FailedStatuses}

(* The same, wrapped once more (what ingestFile makes of its own throw). *)
RewrappedStatusErrors ==
  {[name |-> "CueMapError",
    message |-> <<"Request failed: ", "CueMapError", ": ">> \o e.message] :
     e \in StatusFailureErrors}

(* Wraps of what the transport throws without an abort. *)
TransportFaults == {FetchFailed, EncodeError, JsonSyntaxError, BodyStreamError}

TransportFailureErrors ==
  {[name |-> "CueMapError",
    message |-> <<"Request failed: ", f.name, ": ">> \o f.message] :
     f \in TransportFaults}

TimeoutError ==
  [name |-> "CueMapError",
   message |-> <<"Request failed: ", "AbortError", ": ",
                 "This operation was aborted">>]

-----------------------------------------------------------------------------
(* C1: a best-effort operation (reinforce, deleteProject, addAlias,        *)
(* mergeAliases, lexiconDelete) never raises to its caller: whatever made  *)
(* the underlying request() fail, the operation resolves to false.         *)
C1_BestEffortNeverRaises ==
  \A c \in DOMAIN calls :
    calls[c].op \in BestEffortOps =>
      /\ calls[c].outcome.state # "rejected"
      /\ (Settled(calls[c]) /\ calls[c].inner.state = "rejected") =>
           calls[c].outcome = Resolved(False)

(* A best-effort call whose transport failed has resolved to false. *)
C1_Witness ==
  \E c \in DOMAIN calls :
    /\ calls[c].op = "reinforce"
    /\ Settled(calls[c])
    /\ calls[c].cause = FetchFailed
    /\ calls[c].outcome = Resolved(False)

(* C2: when the timer of a call (request or ingestFile) fires before the   *)
(* engine has answered, the request is aborted and the call fails with the *)
(* client error that wraps the abort, which differs from the error of a    *)
(* 401, of any other failed status and of every other transport fault.     *)
C2_TimeoutAbortsAndFails ==
  \A c \in DOMAIN calls :
    calls[c].timer = "fired" =>
      /\ calls[c].aborted
      /\ Settled(calls[c])
      /\ calls[c].response = NoResponse
      /\ calls[c].inner = Rejected(TimeoutError)
      /\ calls[c].inner.error \notin
           {InvalidApiKeyError} \cup StatusFailureErrors
             \cup RewrappedStatusErrors \cup TransportFailureErrors

(* Both a request() call and an ingestFile call can time out. *)
C2_Witness ==
  \E c \in DOMAIN calls :
    /\ calls[c].op = "ingestFile"
    /\ calls[c].timer = "fired"
    /\ calls[c].outcome = Rejected(TimeoutError)

(* C3: a call that has settled, by success, failure or timeout, has no     *)
(* armed timer left, and the timer callback only ever runs while the call  *)
(* is still awaiting fetch.                                                *)
C3_NoTimerAfterSettle ==
  \A c \in DOMAIN calls :
    /\ calls[c].pc \in {"settled", "idle"} => calls[c].timer # "armed"
    /\ calls[c].timer = "armed" => calls[c].pc = "fetching"

(* A call that failed in the transport has settled with its timer cleared. *)
C3_Witness ==
  \E c \in DOMAIN calls :
    /\ Settled(calls[c])
    /\ calls[c].cause = FetchFailed
    /\ calls[c].timer = "cleared"

-----------------------------------------------------------------------------
(* C4: for every operation that propagates errors, ingestFile included, a  *)
(* response with status 401 yields the error 'Invalid API key', whatever   *)
(* the body of the response is.                                            *)
C4_Status401IsAuthentication ==
  \A c \in DOMAIN calls :
    (/\ calls[c].op \in PropagatingOps
     /\ Settled(calls[c])
     /\ calls[c].response.status = 401) =>
      calls[c].outcome = Rejected(InvalidApiKeyError)

(* C5: through request(), a response whose status is neither a success nor *)
(* 401 yields 'Request failed: <status>' with exactly that status and the  *)
(* body is never decoded; a success status whose call resolves yields the  *)
(* decoded JSON body.                                                      *)
C5_StatusMapping ==
  \A c \in DOMAIN calls :
    (/\ calls[c].op \in (PropagatingOps \cup BestEffortOps) \ {"ingestFile"}
     /\ Settled(calls[c])
     /\ calls[c].response # NoResponse) =>
      /\ (~ResponseOk(calls[c].response) /\ calls[c].response.status # 401) =>
           /\ calls[c].inner =
                Rejected([name |-> "CueMapError",
                          message |-> <<"Request failed: ">>
                                        \o StatusText(calls[c].response.status)])
           /\ ~calls[c].bodyRead
      /\ (ResponseOk(calls[c].response) /\ calls[c].cause = NoError) =>
           /\ calls[c].bodyRead
           /\ calls[c].response.body \in {JsonBody, RecallBody, GroundedBody}
           /\ calls[c].inner =
                Resolved([type |-> "object", v |-> calls[c].response.body])

(* A request() call answered 500 with a JSON body failed with that status. *)
C5_Witness ==
  \E c \in DOMAIN calls :
    /\ calls[c].op = "get"
    /\ Settled(calls[c])
    /\ calls[c].response = [status |-> 500, body |-> JsonBody, stalls |-> FALSE]
    /\ calls[c].outcome.error.message = <<"Request failed: ", "5", "0", "0">>

(* C6: whatever fails (transport fault, body that cannot be encoded,       *)
(* abort, body that cannot be decoded, failed status), an error that       *)
(* reaches the caller is a CueMapError; a transport-level fault is wrapped *)
(* as 'Request failed: <cause>', which carries the text of its cause and   *)
(* is neither the 401 error nor a failed-status error.                     *)
C6_SingleErrorType ==
  \A c \in DOMAIN calls :
    calls[c].op \in PropagatingOps \cup BestEffortOps =>
    /\ calls[c].outcome.state = "rejected" =>
         calls[c].outcome.error.name = "CueMapError"
    /\ (calls[c].outcome.state = "rejected" /\ calls[c].cause # NoError) =>
         /\ calls[c].outcome.error.message =
              <<"Request failed: ", calls[c].cause.name, ": ">>
                \o calls[c].cause.message
         /\ calls[c].outcome.error \notin
              {InvalidApiKeyError} \cup StatusFailureErrors
                \cup RewrappedStatusErrors

(* A propagating operation whose connection was refused rejected with the  *)
(* wrapped fault.                                                          *)
C6_Witness ==
  \E c \in DOMAIN calls :
    /\ calls[c].op = "stats"
    /\ calls[c].cause = FetchFailed
    /\ calls[c].outcome.state = "rejected"
    /\ calls[c].outcome.error.name = "CueMapError"

(* C7: an operation that is not best-effort hands the caller the very      *)
(* error that the status / transport mapping produced for its call, not a  *)
(* re-wrapped one.                                                         *)
C7_ErrorPropagatedUnchanged ==
  \A c \in DOMAIN calls :
    (calls[c].op \in PropagatingOps /\ calls[c].outcome.state = "rejected") =>
      calls[c].outcome.error = calls[c].raised

(* C8: a best-effort operation resolves to true exactly when the engine    *)
(* answered its request with a 2xx status, and to false otherwise; a 2xx   *)
(* answer whose body was received gives true whatever that body is (empty  *)
(* or not JSON).                                                           *)
C8_TrueIffSuccessStatus ==
  \A c \in DOMAIN calls :
    (/\ calls[c].op \in BestEffortOps
     /\ Settled(calls[c])
     /\ calls[c].cause # BodyStreamError) =>
      /\ calls[c].outcome \in {Resolved(True), Resolved(False)}
      /\ calls[c].outcome = Resolved(True) <=> ResponseOk(calls[c].response)

(* C9: an unset url / timeout resolves to the default, every explicitly    *)
(* given url / timeout is the one the client holds, apiKey and projectId   *)
(* stay absent when not given.                                             *)
C9_ExplicitValuesOverride ==
  /\ ~given.url.defined => client.url = "http://localhost:8080"
  /\ ~given.timeout.defined => client.timeout = 30000
  /\ given.url.defined => client.url = given.url.v
  /\ given.timeout.defined => client.timeout = given.timeout.v
  /\ ~given.apiKey.defined => ~client.apiKey.defined
  /\ ~given.projectId.defined => ~client.projectId.defined

HasHeader(request, name) == \E h \in request.headers : h[1] = name

(* C10: every request sent carries X-API-Key with the configured key       *)
(* exactly when a key is configured and X-Project-ID with the configured   *)
(* project exactly when a project is configured, never an empty header;    *)
(* it carries Content-Type: application/json exactly when it is not the    *)
(* multipart upload of ingestFile.                                         *)
C10_Headers ==
  \A c \in DOMAIN calls :
    calls[c].sent > 0 =>
      LET request == calls[c].request IN
      /\ HasHeader(request, "X-API-Key") <=>
           (client.apiKey.defined /\ client.apiKey.v # "")
      /\ HasHeader(request, "X-Project-ID") <=>
           (client.projectId.defined /\ client.projectId.v # "")
      /\ \A h \in request.headers :
           /\ h[2] # ""
           /\ h[1] = "X-API-Key" => h[2] = client.apiKey.v
           /\ h[1] = "X-Project-ID" => h[2] = client.projectId.v
           /\ h[1] = "Content-Type" => h[2] = "application/json"
           /\ h[1] \in {"X-API-Key", "X-Project-ID", "Content-Type"}
      /\ HasHeader(request, "Content-Type") <=> calls[c].op # "ingestFile"

(* A multipart upload went out with the key and the project and without    *)
(* Content-Type.                                                           *)
C10_Witness ==
  \E c \in DOMAIN calls :
    /\ calls[c].op = "ingestFile"
    /\ calls[c].sent = 1
    /\ calls[c].request.headers =
         {<<"X-API-Key", "secret-key">>, <<"X-Project-ID", "proj-1">>}

-----------------------------------------------------------------------------
(* The JSON body of the request a call has sent. *)
SentBody(k) == k.request.body.json

HasKey(body, key) == key \in DOMAIN body

RecallSent(k) == k.op = "recall" /\ k.sent > 0

(* C11 as stated: the body of POST /recall has cues, query_text,           *)
(* min_intersection and projects exactly when the argument was supplied    *)
(* (not undefined), each with the caller's value.                          *)
C11_OptionalKeysWhenSupplied ==
  \A c \in DOMAIN calls :
    RecallSent(calls[c]) =>
      LET a == calls[c].args
          body == SentBody(calls[c])
      IN /\ HasKey(body, "cues") <=> a.cues.defined
         /\ HasKey(body, "query_text") <=> a.queryText.defined
         /\ HasKey(body, "min_intersection") <=> a.minIntersection.defined
         /\ HasKey(body, "projects") <=> a.projects.defined

(* C11 amended: the body of POST /recall has cues, min_intersection and    *)
(* projects exactly when the argument was supplied, and query_text exactly *)
(* when queryText is a non-empty string; a key that is present holds the   *)
(* caller's value unchanged (an empty cues list and a min_intersection of  *)
(* 0 included), a key that is absent is not in the body at all, and        *)
(* queryText and cues given together are both sent as given.               *)
C11_OptionalKeysAmended ==
  \A c \in DOMAIN calls :
    RecallSent(calls[c]) =>
      LET a == calls[c].args
          body == SentBody(calls[c])
      IN /\ HasKey(body, "cues") <=> a.cues.defined
         /\ HasKey(body, "query_text") <=>
              (a.queryText.defined /\ a.queryText.v # "")
         /\ HasKey(body, "min_intersection") <=> a.minIntersection.defined
         /\ HasKey(body, "projects") <=> a.projects.defined
         /\ HasKey(body, "cues") => body["cues"] = a.cues
         /\ HasKey(body, "query_text") => body["query_text"] = a.queryText
         /\ HasKey(body, "min_intersection") =>
              body["min_intersection"] = a.minIntersection
         /\ HasKey(body, "projects") => body["projects"] = a.projects

(* recall(undefined, ["meeting", "john"], undefined, ..., 0) has been      *)
(* sent: cues and min_intersection 0 are in the body, query_text and       *)
(* projects are not.                                                       *)
C11_Witness ==
  \E c \in DOMAIN calls :
    /\ RecallSent(calls[c])
    /\ ~calls[c].args.queryText.defined
    /\ calls[c].args.minIntersection = Num(0)
    /\ HasKey(SentBody(calls[c]), "cues")
    /\ HasKey(SentBody(calls[c]), "min_intersection")
    /\ SentBody(calls[c])["cues"] = Arr(<<"meeting", "john">>)
    /\ SentBody(calls[c])["min_intersection"] = Num(0)
    /\ ~HasKey(SentBody(calls[c]), "query_text")
    /\ ~HasKey(SentBody(calls[c]), "projects")

(* C12: the body of POST /recall always carries limit, auto_reinforce,     *)
(* explain and the three disable flags; each is the caller's argument when *)
(* given, and when omitted limit is 10 and every boolean is false.         *)
C12_FixedKeysAndDefaults ==
  \A c \in DOMAIN calls :
    RecallSent(calls[c]) =>
      LET a == calls[c].args
          body == SentBody(calls[c])
      IN /\ {"limit", "auto_reinforce", "explain",
             "disable_pattern_completion", "disable_salience_bias",
             "disable_systems_consolidation"} \subseteq DOMAIN body
         /\ body["limit"] = IF a.limit.defined THEN a.limit ELSE Num(10)
         /\ body["auto_reinforce"] =
              IF a.autoReinforce.defined THEN a.autoReinforce ELSE Bool(FALSE)
         /\ body["explain"] =
              IF a.explain.defined THEN a.explain ELSE Bool(FALSE)
         /\ body["disable_pattern_completion"] =
              IF a.disablePatternCompletion.defined
              THEN a.disablePatternCompletion ELSE Bool(FALSE)
         /\ body["disable_salience_bias"] =
              IF a.disableSalienceBias.defined
              THEN a.disableSalienceBias ELSE Bool(FALSE)
         /\ body["disable_systems_consolidation"] =
              IF a.disableSystemsConsolidation.defined
              THEN a.disableSystemsConsolidation ELSE Bool(FALSE)

(* A recall with limit 5 and disableSalienceBias true, the rest omitted,   *)
(* has been sent.                                                          *)
C12_Witness ==
  \E c \in DOMAIN calls :
    /\ RecallSent(calls[c])
    /\ calls[c].args.limit = Num(5)
    /\ calls[c].args.disableSalienceBias = Bool(TRUE)
    /\ ~calls[c].args.explain.defined
    /\ SentBody(calls[c])["limit"] = Num(5)
    /\ SentBody(calls[c])["disable_salience_bias"] = Bool(TRUE)
    /\ SentBody(calls[c])["explain"] = Bool(FALSE)

-----------------------------------------------------------------------------
(* C13: a recall() the engine answered with {results: [...]} resolves to   *)
(* the results array of the answer, so that element 0 of the returned      *)
(* value is the top RecallResult.                                          *)
C13_RecallResolvesToResults ==
  \A c \in DOMAIN calls :
    (/\ calls[c].op = "recall"
     /\ Settled(calls[c])
     /\ calls[c].inner = Resolved(JsonObject(RecallBody))) =>
      /\ calls[c].outcome =
           Resolved(GetProperty(calls[c].inner.value, "results"))
      /\ GetFirst(calls[c].outcome.value) = JsonObject(ResultItemText)

AddSent(k) == k.op = "add" /\ k.sent > 0

(* C14: every add() sends to POST /memories a body with exactly content,   *)
(* cues, metadata and disable_temporal_chunking: content and cues as       *)
(* given (an empty cues list included), metadata as given or an empty      *)
(* mapping, disable_temporal_chunking as given or false; and an add()      *)
(* that succeeds resolves to the id member of the decoded answer.          *)
C14_AddBodyAndId ==
  \A c \in DOMAIN calls :
    AddSent(calls[c]) =>
      LET a == calls[c].args
          body == SentBody(calls[c])
      IN /\ calls[c].request.method = "POST"
         /\ calls[c].request.url = <<client.url, "/memories">>
         /\ DOMAIN body =
              {"content", "cues", "metadata", "disable_temporal_chunking"}
         /\ body["content"] = a.content
         /\ body["cues"] = a.cues
         /\ body["metadata"] = IF a.metadata.defined THEN a.metadata.v ELSE "{}"
         /\ body["disable_temporal_chunking"] =
              IF a.disableTemporalChunking.defined
              THEN a.disableTemporalChunking.v ELSE FALSE
         /\ (Settled(calls[c]) /\ calls[c].inner.state = "resolved") =>
              calls[c].outcome =
                Resolved(GetProperty(calls[c].inner.value, "id"))
         /\ (Settled(calls[c]) /\ calls[c].inner.state = "resolved"
               /\ calls[c].response.body = JsonBody) =>
              calls[c].outcome = Resolved(JsString("m1"))

(* add("The server password is abc123", []) answered with {id: "m1"} has   *)
(* resolved to "m1"; the empty cues list and the defaults were sent.       *)
C14_Witness ==
  \E c \in DOMAIN calls :
    /\ AddSent(calls[c])
    /\ Settled(calls[c])
    /\ calls[c].args.cues = <<>>
    /\ ~calls[c].args.metadata.defined
    /\ ~calls[c].args.disableTemporalChunking.defined
    /\ SentBody(calls[c])["cues"] = <<>>
    /\ SentBody(calls[c])["metadata"] = "{}"
    /\ SentBody(calls[c])["disable_temporal_chunking"] = FALSE
    /\ calls[c].outcome = Resolved(JsString("m1"))

RecallGroundedSent(k) == k.op = "recallGrounded" /\ k.sent > 0

(* C15: every recallGrounded() sends to POST /recall/grounded a body with  *)
(* query_text, token_budget, limit and the three disable flags, each the   *)
(* caller's value or, when omitted, 500, 10 and false; projects is in the  *)
(* body exactly when it was supplied, with the caller's list; and a call   *)
(* that succeeds resolves to the decoded answer unchanged.                 *)
C15_GroundedBodyAndResponse ==
  \A c \in DOMAIN calls :
    RecallGroundedSent(calls[c]) =>
      LET a == calls[c].args
          body == SentBody(calls[c])
      IN /\ calls[c].request.method = "POST"
         /\ calls[c].request.url = <<client.url, "/recall/grounded">>
         /\ DOMAIN body \ {"projects"} =
              {"query_text", "token_budget", "limit",
               "disable_pattern_completion", "disable_salience_bias",
               "disable_systems_consolidation"}
         /\ body["query_text"] = Str(a.query)
         /\ body["token_budget"] =
              IF a.tokenBudget.defined THEN a.tokenBudget ELSE Num(500)
         /\ body["limit"] = IF a.limit.defined THEN a.limit ELSE Num(10)
         /\ body["disable_pattern_completion"] =
              IF a.disablePatternCompletion.defined
              THEN a.disablePatternCompletion ELSE Bool(FALSE)
         /\ body["disable_salience_bias"] =
              IF a.disableSalienceBias.defined
              THEN a.disableSalienceBias ELSE Bool(FALSE)
         /\ body["disable_systems_consolidation"] =
              IF a.disableSystemsConsolidation.defined
              THEN a.disableSystemsConsolidation ELSE Bool(FALSE)
         /\ HasKey(body, "projects") <=> a.projects.defined
         /\ HasKey(body, "projects") => body["projects"] = a.projects
         /\ (Settled(calls[c]) /\ calls[c].inner.state = "resolved") =>
              /\ calls[c].outcome = calls[c].inner
              /\ calls[c].outcome.value =
                   [type |-> "object", v |-> calls[c].response.body]

(* recallGrounded("Why is payment failing?", undefined, 0, []) answered    *)
(* with a grounded response: token_budget 500, limit 0 and the empty       *)
(* projects list were sent, and the answer came back as it was decoded.    *)
C15_Witness ==
  \E c \in DOMAIN calls :
    /\ RecallGroundedSent(calls[c])
    /\ Settled(calls[c])
    /\ ~calls[c].args.tokenBudget.defined
    /\ calls[c].args.limit = Num(0)
    /\ calls[c].args.projects = Arr(<<>>)
    /\ HasKey(SentBody(calls[c]), "projects")
    /\ SentBody(calls[c])["projects"] = Arr(<<>>)
    /\ SentBody(calls[c])["token_budget"] = Num(500)
    /\ SentBody(calls[c])["limit"] = Num(0)
    /\ calls[c].outcome = Resolved(JsonObject(GroundedBody))
    /\ GetProperty(calls[c].outcome.value, "engine_latency_ms") = JsNumber("4")

(* C16: a retrieveGrounded() whose grounded recall was answered with a     *)
(* well-formed grounded response resolves to the artifact whose            *)
(* verified_context_block is response.verified_context, grounding_proof is *)
(* response.proof and selected_memories is response.proof.selected, each   *)
(* exactly as decoded, and it has sent one request and no more.            *)
C16_PureProjection ==
  \A c \in DOMAIN calls :
    calls[c].op = "retrieveGrounded" =>
      /\ calls[c].sent <= 1
      /\ (Settled(calls[c])
            /\ calls[c].inner = Resolved(JsonObject(GroundedBody))) =>
           /\ calls[c].sent = 1
           /\ calls[c].outcome.state = "resolved"
           /\ calls[c].outcome.value.type = "artifact"
           /\ DOMAIN calls[c].outcome.value.v =
                {"verified_context_block", "grounding_proof",
                 "selected_memories"}
           /\ calls[c].outcome.value.v.verified_context_block =
                JsString(VerifiedContextText)
           /\ calls[c].outcome.value.v.grounding_proof = JsonObject(ProofText)
           /\ calls[c].outcome.value.v.selected_memories =
                JsonArray(SelectedText)

(* A retrieveGrounded() answered with the grounded response has resolved   *)
(* to an artifact whose first selected memory is the first of the proof.   *)
C16_Witness ==
  \E c \in DOMAIN calls :
    /\ calls[c].op = "retrieveGrounded"
    /\ Settled(calls[c])
    /\ calls[c].sent = 1
    /\ calls[c].inner = Resolved(JsonObject(GroundedBody))
    /\ calls[c].outcome.state = "resolved"
    /\ GetFirst(calls[c].outcome.value.v.selected_memories) =
         JsonObject(SelectedItemText)

InFlight(k) == k.pc \in {"fetching", "reading"}

(* The step is the timer callback of call c. *)
TimerFiredOn(c) == calls[c].timer = "armed" /\ calls'[c].timer = "fired"

(* C17: with several calls running on one client, the timer callback of    *)
(* one call changes nothing of any other call (its timer, its abort        *)
(* signal, its position and its outcome stay as they are), and a call is   *)
(* aborted or fails with the timeout error only after its own timer fired. *)
C17_TimeoutScopedToCall ==
  /\ [](\A c \in DOMAIN calls :
         (calls[c].aborted \/ calls[c].cause = AbortError) =>
           calls[c].timer = "fired")
  /\ [][\A c \in DOMAIN calls : \A d \in DOMAIN calls \ {c} :
         TimerFiredOn(c) => calls'[d] = calls[d]]_vars

(* One call has timed out while the other is still waiting for its answer  *)
(* with its own timer armed and its signal not aborted.                    *)
C17_Witness ==
  \E c \in DOMAIN calls : \E d \in DOMAIN calls \ {c} :
    /\ Settled(calls[c])
    /\ calls[c].timer = "fired"
    /\ calls[c].cause = AbortError
    /\ InFlight(calls[d])
    /\ calls[d].timer = "armed"
    /\ ~calls[d].aborted

(* C18: whatever operations run, and however they end, the client keeps    *)
(* the url, apiKey, projectId and timeout the constructor resolved; no     *)
(* step changes them, and a slot whose call was returned holds nothing of  *)
(* that call.                                                              *)
C18_ConfigurationNeverChanges ==
  /\ [](client = Constructor(given))
  /\ [][client' = client /\ given' = given]_vars
  /\ [](\A c \in DOMAIN calls : calls[c].pc = "idle" => calls[c] = IdleCall)

(* A second operation has failed on a client that was given a url, a key   *)
(* and a project, and the client still holds them.                         *)
C18_Witness ==
  \E c \in DOMAIN calls :
    /\ invoked > 1
    /\ Settled(calls[c])
    /\ calls[c].inner.state = "rejected"
    /\ client.url = "https://engine.example"
    /\ client.apiKey = Str("secret-key")
    /\ client.projectId = Str("proj-1")
    /\ client.timeout = 5

(* C19 as stated: every invocation that has settled has issued exactly one *)
(* HTTP request.                                                           *)
C19_ExactlyOneRequest ==
  \A c \in DOMAIN calls : Settled(calls[c]) => calls[c].sent = 1

(* A failure reaches the caller: the best-effort operations resolve to     *)
(* false, every other one rejects.                                         *)
Surfaced(k) ==
  IF k.op \in BestEffortOps THEN k.outcome = Resolved(False)
  ELSE k.outcome.state = "rejected"

(* C19 amended: an invocation never issues more than one HTTP request: it  *)
(* issues exactly one unless its body could not be encoded, in which case  *)
(* it issues none; once the request is out it is never sent again nor      *)
(* replaced, and a failure of any kind (status, transport, timeout,        *)
(* encoding) settles the call at once and is surfaced as an error, or as   *)
(* false by the best-effort operations.                                    *)
C19_AtMostOneRequestNoRetry ==
  /\ [](\A c \in DOMAIN calls :
         /\ calls[c].sent <= 1
         /\ InFlight(calls[c]) => calls[c].sent = 1
         /\ Settled(calls[c]) =>
              (calls[c].sent = 0 <=> calls[c].cause = EncodeError)
         /\ (calls[c].op \in PropagatingOps \cup BestEffortOps
               /\ calls[c].raised # NoError) =>
              (Settled(calls[c]) /\ Surfaced(calls[c])))
  /\ [][\A c \in DOMAIN calls :
         (calls[c].sent = 1 /\ calls'[c].pc # "idle") =>
           (calls'[c].sent = 1 /\ calls'[c].request = calls[c].request)]_vars

(* A reinforce() has timed out after its one request and has resolved to   *)
(* false.                                                                  *)
C19_Witness ==
  \E c \in DOMAIN calls :
    /\ Settled(calls[c])
    /\ calls[c].sent = 1
    /\ calls[c].op = "reinforce"
    /\ calls[c].cause = AbortError
    /\ calls[c].outcome = Resolved(False)

(* C20: a call that has been invoked eventually settles, whatever the      *)
(* engine does, the case where the status and the headers arrive in time   *)
(* and the body never completes included.                                  *)
C20_EveryCallSettles ==
  InFlight(calls[1]) ~> Settled(calls[1])

RetrieveGroundedSent(k) == k.op = "retrieveGrounded" /\ k.sent > 0

(* C21: a retrieveGrounded() causes one POST /recall/grounded on the       *)
(* retriever's client (the CueMap instance it was given, or one built from *)
(* the configuration it was given, or from none), whose body carries       *)
(* queryText, tokenBudget, limit and disablePatternCompletion as the       *)
(* caller gave them (500, 10 and false when omitted), projects exactly     *)
(* when it was given, and disable_salience_bias and                        *)
(* disable_systems_consolidation both false.                               *)
C21_ForwardsArguments ==
  \A c \in DOMAIN calls :
    RetrieveGroundedSent(calls[c]) =>
      LET r == calls[c].args
          body == SentBody(calls[c])
      IN /\ calls[c].sent = 1
         /\ calls[c].request.method = "POST"
         /\ calls[c].request.url =
              <<CASE r.configOrClient.kind = "client" -> client.url
                  [] r.configOrClient.kind = "config" ->
                       "https://grounding.example"
                  [] r.configOrClient.kind = "undefined" ->
                       "http://localhost:8080",
                "/recall/grounded">>
         /\ calls[c].request.headers =
              {<<"Content-Type", "application/json">>} \cup
              (CASE r.configOrClient.kind = "client" ->
                      (IF TruthyStr(client.apiKey)
                       THEN {<<"X-API-Key", client.apiKey.v>>} ELSE {})
                      \cup (IF TruthyStr(client.projectId)
                            THEN {<<"X-Project-ID", client.projectId.v>>}
                            ELSE {})
                 [] r.configOrClient.kind = "config" ->
                      {<<"X-API-Key", "retriever-key">>}
                 [] r.configOrClient.kind = "undefined" -> {})
         /\ DOMAIN body \ {"projects"} =
              {"query_text", "token_budget", "limit",
               "disable_pattern_completion", "disable_salience_bias",
               "disable_systems_consolidation"}
         /\ body["query_text"] = Str(r.queryText)
         /\ body["token_budget"] =
              IF r.tokenBudget.defined THEN r.tokenBudget ELSE Num(500)
         /\ body["limit"] = IF r.limit.defined THEN r.limit ELSE Num(10)
         /\ body["disable_pattern_completion"] =
              IF r.disablePatternCompletion.defined
              THEN r.disablePatternCompletion ELSE Bool(FALSE)
         /\ HasKey(body, "projects") <=> r.projects.defined
         /\ HasKey(body, "projects") => body["projects"] = r.projects
         /\ body["disable_salience_bias"] = Bool(FALSE)
         /\ body["disable_systems_consolidation"] = Bool(FALSE)

(* retrieveGrounded("Why did the database fail?", 300, 5, ["sales"], true) *)
(* on a retriever built from a configuration, beside a client of another   *)
(* engine, has been sent to that configuration's engine with the five      *)
(* values in the body and the two other flags false.                       *)
C21_Witness ==
  \E c \in DOMAIN calls :
    /\ RetrieveGroundedSent(calls[c])
    /\ calls[c].args.configOrClient = GivenConfig(RetrieverConfig)
    /\ calls[c].args.tokenBudget = Num(300)
    /\ calls[c].args.limit = Num(5)
    /\ calls[c].args.disablePatternCompletion = Bool(TRUE)
    /\ client.url = "https://engine.example"
    /\ calls[c].request.url =
         <<"https://grounding.example", "/recall/grounded">>
    /\ SentBody(calls[c])["token_budget"] = Num(300)
    /\ SentBody(calls[c])["limit"] = Num(5)
    /\ HasKey(SentBody(calls[c]), "projects")
    /\ SentBody(calls[c])["projects"] = Arr(<<"sales">>)
    /\ SentBody(calls[c])["disable_pattern_completion"] = Bool(TRUE)
    /\ SentBody(calls[c])["disable_salience_bias"] = Bool(FALSE)
    /\ SentBody(calls[c])["disable_systems_consolidation"] = Bool(FALSE)

====
